---- MODULE Spec2Model ----
(***************************************************************************)
(* Model of sqlite3worker.py: client threads (submitters) call the public  *)
(* operations of Sqlite3Worker handles; each handle is bound to one        *)
(* Sqlite3WorkerThread (owner thread) that drains a bounded queue of       *)
(* requests against its sqlite3 connection.                                *)
(***************************************************************************)
EXTENDS Integers, Sequences, FiniteSets, TLC

\* ---------------------------------------------------------------- bounds
MaxSubmitters == 2
MaxHandles == 2
MaxThreads == 2
MaxCalls == 3          \* public calls in a run of Spec
MaxCallsReopen == 5    \* public calls in a run of SpecReopen
MaxQueue == 2          \* max_queue_size the handles are constructed with

Submitters == 1..MaxSubmitters
Handles == 1..MaxHandles
Threads == 1..MaxThreads
CallIds == 1..(IF MaxCalls > MaxCallsReopen THEN MaxCalls ELSE MaxCallsReopen)

\* ------------------------------------------------------ values and inputs
MEMORY == ":memory:"
platform_system == "Linux"
FileNames == {"/cwd/db1", "db1", ":MEMORY:"}
Paths == {"/cwd/db1", MEMORY}
NoPath == "-"
None == 0
Queries == {"insert", "select", "bad"}
Blocking == {"Execute", "ExecuteScript"}

\* str.lower() on the spellings the model uses
lower(f) == IF f = ":MEMORY:" THEN MEMORY ELSE f

\* os.path.abspath on the spellings the model uses (cwd is /cwd)
abspath(f) == IF f = "db1" THEN "/cwd/db1" ELSE f

normalize_file_name(f) ==
    IF lower(f) = MEMORY THEN MEMORY
    ELSE IF platform_system = "Windows" THEN lower(abspath(f))
    ELSE abspath(f)

\* A call of a client thread and the request object it builds: id is the
\* identity of the call, kind the request class (or "init"/"total_changes"
\* for the two calls that build none), thread the request's thread
\* attribute, query the SQL (or the factory), by the calling thread.
Request(n, k, t, q, s) == [id |-> n, kind |-> k, thread |-> t, query |-> q, by |-> s]

NoReq == Request(0, "None", 0, "-", 0)

NoRet == [rows |-> << >>, changes |-> 0]

VARIABLES
    \* Sqlite3Worker class attributes
    _threads,        \* registry: normalized path -> owner thread (None if absent)
    _threads_lock,   \* holder of the registry lock (None if free)
    \* Sqlite3Worker instance attributes, per handle
    _file_name, _thread, _exit_set,
    \* Sqlite3WorkerThread attributes, per owner thread
    t_file,          \* file_name the connection was opened on
    _workers, _sql_queue, _max_queue_size,
    tstate,          \* position of run(): unborn/get/exec/except/requeue/closing/dead/crashed
    x,               \* the request run() holds
    pending,         \* rows written on the connection and not yet committed
    total_changes, row_factory, text_factory,
    conn_readers,    \* client threads that read _sqlite3_conn themselves
    \* the database files (and the private store of each in-memory connection)
    disk,
    \* client threads: position, handle and request of the current (or last)
    \* call, what it returned or raised, and whether the handle was closed
    \* when it was called
    pc, self, r, outcome, ret, closed_at_call,
    \* result slot of each request (Queue.Queue of (success, result))
    results,
    \* bookkeeping
    calls, limit,    \* number of public calls begun so far, and allowed
    enq,             \* per owner thread: the requests in the order they were enqueued
    done,            \* per owner thread: the requests whose execute() has ended, in order
    written,         \* per request: number of results put on its result slot
    requeued,        \* per owner thread: number of times Exit was put back
    inserted,        \* per store: rows in the order their INSERT was executed
    acked            \* per client: <<store, row>> of each INSERT that returned to it

vars == << _threads, _threads_lock, _file_name, _thread, _exit_set, t_file,
           _workers, _sql_queue, _max_queue_size, tstate, x, pending,
           total_changes, row_factory, text_factory, disk, pc, self, r,
           outcome, ret, closed_at_call, results, calls, limit, enq, done,
           written, requeued, inserted, acked, conn_readers >>

handleVars == << _file_name, _thread, _exit_set >>
registryVars == << _threads, _threads_lock >>
connVars == << pending, total_changes, row_factory, text_factory, disk >>
threadVars == << t_file, _workers, _sql_queue, _max_queue_size, tstate, x >>
histVars == << enq, done, written, requeued, inserted >>
callVars == << self, r, closed_at_call, calls, limit >>
clientVars == << pc, self, r, outcome, ret, closed_at_call, calls, limit, acked,
                conn_readers >>

\* ------------------------------------------------------------- helpers
\* The store a connection reads and writes: the database file (store 0, the
\* one file path of the model), or for ':memory:' a database private to the
\* connection (store t).
StoreKeys == {0} \cup Threads
StoreOf(t) == IF t_file[t] = MEMORY THEN t ELSE 0

is_alive(t) == tstate[t] \in {"get", "exec", "except", "requeue", "closing"}
Started(t) == tstate[t] # "unborn"
Constructed(h) == _file_name[h] # NoPath

NextThread == Cardinality({t \in Threads : Started(t)}) + 1
NextHandle == Cardinality({h \in Handles : Constructed(h)}) + 1

\* Queue.full() / Queue.empty()
full(t) == Len(_sql_queue[t]) >= _max_queue_size[t]
empty(t) == Len(_sql_queue[t]) = 0

\* Queue.put at the tail
QPutFront(q, e) == << e >> \o q

QPut(q, e) == Append(q, e)

\* Another connection on the same file holds an open write transaction
\* (sqlite3 then fails writes with "database is locked").
Locked(t) ==
    \E u \in Threads : /\ u # t
                       /\ tstate[u] \notin {"unborn", "dead"}
                       /\ StoreOf(u) = StoreOf(t)
                       /\ pending[u] # << >>

\* The rows a SELECT on t's connection sees.
Rows(t) == disk[StoreOf(t)] \o pending[t]

\* ------------------------------------------------------------- initial state
\* One handle has been constructed on the database file (as the tests' setUp
\* does): its owner thread is started and registered.
InitWith(budget) ==
    /\ _threads = [p \in Paths |-> IF p = "/cwd/db1" THEN 1 ELSE None]
    /\ _threads_lock = None
    /\ _file_name = [h \in Handles |-> IF h = 1 THEN "/cwd/db1" ELSE NoPath]
    /\ _thread = [h \in Handles |-> IF h = 1 THEN 1 ELSE None]
    /\ _exit_set = [h \in Handles |-> FALSE]
    /\ t_file = [t \in Threads |-> IF t = 1 THEN "/cwd/db1" ELSE NoPath]
    /\ _workers = [t \in Threads |-> IF t = 1 THEN {1} ELSE {}]
    /\ _sql_queue = [t \in Threads |-> << >>]
    /\ _max_queue_size = [t \in Threads |-> MaxQueue]
    /\ tstate = [t \in Threads |-> IF t = 1 THEN "get" ELSE "unborn"]
    /\ x = [t \in Threads |-> NoReq]
    /\ pending = [t \in Threads |-> << >>]
    /\ total_changes = [t \in Threads |-> 0]
    /\ conn_readers = [t \in Threads |-> {}]
    /\ row_factory = [t \in Threads |-> "None"]
    /\ text_factory = [t \in Threads |-> "str"]
    /\ disk = [k \in StoreKeys |-> << >>]
    /\ pc = [s \in Submitters |-> "idle"]
    /\ self = [s \in Submitters |-> None]
    /\ r = [s \in Submitters |-> NoReq]
    /\ outcome = [s \in Submitters |-> "none"]
    /\ ret = [s \in Submitters |-> NoRet]
    /\ closed_at_call = [s \in Submitters |-> FALSE]
    /\ results = [n \in CallIds |-> << >>]
    /\ calls = 0
    /\ limit = budget
    /\ enq = [t \in Threads |-> << >>]
    /\ done = [t \in Threads |-> << >>]
    /\ written = [n \in CallIds |-> 0]
    /\ requeued = [t \in Threads |-> 0]
    /\ inserted = [k \in StoreKeys |-> << >>]
    /\ acked = [s \in Submitters |-> << >>]

Init == InitWith(MaxCalls)

\* ------------------------------------------------- client side: bookkeeping
\* A client thread s begins the public call of kind k (query q) on handle h.
Begin(s, h, k, q) ==
    /\ pc[s] = "idle"
    /\ calls < limit
    /\ calls' = calls + 1
    /\ r' = [r EXCEPT ![s] = Request(calls + 1, k, _thread[h], q, s)]
    /\ self' = [self EXCEPT ![s] = h]
    /\ closed_at_call' = [closed_at_call EXCEPT ![s] = _exit_set[h]]
    /\ UNCHANGED limit

\* The call of s returns normally ("ok") or raises the named exception.
Return(s, e) ==
    /\ pc' = [pc EXCEPT ![s] = "idle"]
    /\ outcome' = [outcome EXCEPT ![s] = e]

\* The call of s goes on at position p.
Goto(s, p) ==
    /\ pc' = [pc EXCEPT ![s] = p]
    /\ outcome' = [outcome EXCEPT ![s] = "none"]

\* ------------------------------------------------- Sqlite3Worker.__init__
\* Line 229: self._threads.get ( self._file_name )
LookupMiss(reg, p) == None

Lookup(reg, p) == reg[p]

\* Lines 229-234: the registry after the body of __init__ ran for path p,
\* t being the thread found or created.
RegistryAfterInit(reg, p, t, created) ==
    LET a == IF created THEN [reg EXCEPT ![p] = t] ELSE reg
    IN  IF p # MEMORY THEN [a EXCEPT ![p] = t] ELSE a

\* Lines 227-235, the whole body under the registry lock.
Sqlite3Worker_init(s, f) ==
    LET p == normalize_file_name(f)
        h == NextHandle
        created == Lookup(_threads, p) = None
        t == IF created THEN NextThread ELSE Lookup(_threads, p)
    IN  /\ _threads_lock = None
        /\ h \in Handles
        /\ t \in Threads
        /\ Begin(s, h, "init", "-")
        /\ Return(s, "ok")
        /\ ret' = [ret EXCEPT ![s] = NoRet]
        /\ _file_name' = [_file_name EXCEPT ![h] = p]
        /\ _thread' = [_thread EXCEPT ![h] = t]
        /\ _threads' = RegistryAfterInit(_threads, p, t, created)
        /\ _workers' = [_workers EXCEPT ![t] = (IF created THEN {} ELSE @) \cup {h}]
        /\ t_file' = [t_file EXCEPT ![t] = p]
        /\ tstate' = [tstate EXCEPT ![t] = IF created THEN "get" ELSE @]
        /\ UNCHANGED << _threads_lock, _exit_set, _sql_queue, _max_queue_size, x,
                        connVars, results, acked, histVars, conn_readers >>

\* ------------------------------------------------- Sqlite3Worker.close
\* Lines 239-241: does close() raise 'already closed' on handle h?
NeverClosed(h) == FALSE

AlreadyClosed(h) == _exit_set[h]

\* Line 239: the closed-flag test.
close_check(s, h) ==
    /\ Constructed(h)
    /\ Begin(s, h, "Exit", "-")
    /\ ret' = [ret EXCEPT ![s] = NoRet]
    /\ IF AlreadyClosed(h)
       THEN Return(s, "ProgrammingError")
       ELSE Goto(s, "close_set")
    /\ UNCHANGED << registryVars, handleVars, threadVars, connVars, results,
                    acked, histVars, conn_readers >>

\* Line 242.
close_set(s) ==
    /\ pc[s] = "close_set"
    /\ _exit_set' = [_exit_set EXCEPT ![self[s]] = TRUE]
    /\ pc' = [pc EXCEPT ![s] = "close_lock"]
    /\ UNCHANGED << registryVars, _file_name, _thread, threadVars, connVars,
                    callVars, outcome, ret, results, acked, histVars,
                    conn_readers >>

\* Line 245: is the handle set of t empty once h is removed?
LastWorkerAlways(t, h) == TRUE

LastWorker(t, h) == _workers[t] \ {h} = {}

\* Lines 243-246: take the registry lock and deregister.  With other handles
\* left the lock is released again and close returns.  The last handle puts
\* Sqlite3WorkerExit on the queue, at once when there is room, else it
\* blocks in put (close_put) holding the lock.
close_lock(s) ==
    LET h == self[s]
        t == _thread[h]
    IN  /\ pc[s] = "close_lock"
        /\ _threads_lock = None
        /\ IF h \notin _workers[t]
           THEN /\ Return(s, "KeyError")
                /\ UNCHANGED << _workers, _threads_lock, _sql_queue >>
           ELSE /\ _workers' = [_workers EXCEPT ![t] = @ \ {h}]
                /\ IF ~LastWorker(t, h)
                   THEN /\ Return(s, "ok")
                        /\ UNCHANGED << _threads_lock, _sql_queue >>
                   ELSE /\ _threads_lock' = s
                        /\ UNCHANGED outcome
                        /\ IF full(t)
                           THEN /\ pc' = [pc EXCEPT ![s] = "close_put"]
                                /\ UNCHANGED _sql_queue
                           ELSE /\ pc' = [pc EXCEPT ![s] = "close_join"]
                                /\ _sql_queue' = [_sql_queue EXCEPT ![t] = QPut(@, r[s])]
        /\ enq' = [enq EXCEPT ![t] = IF _sql_queue'[t] # _sql_queue[t] THEN Append(@, r[s]) ELSE @]
        /\ UNCHANGED << _threads, handleVars, t_file, _max_queue_size, tstate, x,
                        connVars, callVars, ret, results, acked, done, written,
                        requeued, inserted, conn_readers >>

\* Line 246: room was made within the 5 s.
close_put(s) ==
    LET t == _thread[self[s]]
    IN  /\ pc[s] = "close_put"
        /\ ~full(t)
        /\ _sql_queue' = [_sql_queue EXCEPT ![t] = QPut(@, r[s])]
        /\ enq' = [enq EXCEPT ![t] = Append(@, r[s])]
        /\ pc' = [pc EXCEPT ![s] = "close_join"]
        /\ UNCHANGED << registryVars, handleVars, t_file, _workers, _max_queue_size,
                        tstate, x, connVars, callVars, outcome, ret, results,
                        acked, done, written, requeued, inserted, conn_readers >>

\* Line 246: the queue stayed full for 5 s, put raises Queue.Full; the with
\* statement releases the lock.
close_put_timeout(s) ==
    LET t == _thread[self[s]]
    IN  /\ pc[s] = "close_put"
        /\ full(t)
        /\ Return(s, "Full")
        /\ _threads_lock' = None
        /\ UNCHANGED << _threads, handleVars, threadVars, connVars, callVars, ret,
                        results, acked, histVars, conn_readers >>

\* Lines 248-252: join the owner thread, then delete the registry entry.
close_join(s) ==
    LET h == self[s]
        t == _thread[h]
        p == _file_name[h]
    IN  /\ pc[s] = "close_join"
        /\ ~is_alive(t)
        /\ IF _threads[p] # None
           THEN /\ _threads' = [_threads EXCEPT ![p] = None]
                /\ Return(s, "ok")
           ELSE /\ UNCHANGED _threads
                /\ Return(s, IF p = MEMORY THEN "ok" ELSE "AssertionError")
        /\ _threads_lock' = None
        /\ UNCHANGED << handleVars, threadVars, connVars, callVars, ret, results,
                        acked, histVars, conn_readers >>

\* ------------------------------------- Sqlite3Worker: the request operations
\* Does the operation test the closed flag before it goes to the queue?
\* execute_ex (276), executescript_ex (292) and commit (308) do;
\* set_row_factory (259-260) and set_text_factory (262-263) do not.
ChecksClosed(k) == k \in {"Execute", "ExecuteScript", "Commit"}

\* What the closed-flag branch raises: ProgrammingError, but the debug line
\* of commit (309) names the undefined `query` first.
ClosedError(k) == IF k = "Commit" THEN "NameError" ELSE "ProgrammingError"

\* Lines 276-280 / 292-296 / 308-311: the closed-flag test, then the
\* construction of the request.
checked_call(s, h, k, q) ==
    /\ Constructed(h)
    /\ ChecksClosed(k)
    /\ Begin(s, h, k, q)
    /\ ret' = [ret EXCEPT ![s] = NoRet]
    /\ IF _exit_set[h]
       THEN Return(s, ClosedError(k))
       ELSE Goto(s, "put")
    /\ UNCHANGED << registryVars, handleVars, threadVars, connVars, results,
                    acked, histVars, conn_readers >>

execute_ex(s, h, q) == checked_call(s, h, "Execute", q)

executescript_ex(s, h) == checked_call(s, h, "ExecuteScript", "script")

commit(s, h) == checked_call(s, h, "Commit", "-")

\* self._thread._sql_queue.put ( r, timeout=5 ) with room in the queue; the
\* fire-and-forget operations return, the others go on to r.results.get().
put(s) ==
    LET t == _thread[self[s]]
    IN  /\ pc[s] = "put"
        /\ ~full(t)
        /\ _sql_queue' = [_sql_queue EXCEPT ![t] = QPut(@, r[s])]
        /\ enq' = [enq EXCEPT ![t] = Append(@, r[s])]
        /\ IF r[s].kind \in Blocking
           THEN /\ pc' = [pc EXCEPT ![s] = "wait"]
                /\ UNCHANGED outcome
           ELSE Return(s, "ok")
        /\ UNCHANGED << registryVars, handleVars, t_file, _workers, _max_queue_size,
                        tstate, x, connVars, callVars, ret, results, acked, done,
                        written, requeued, inserted, conn_readers >>

\* The queue stayed full for the 5 s: put raises Queue.Full.
put_timeout_enqueues(s) ==
    LET t == _thread[self[s]]
    IN  /\ pc[s] = "put"
        /\ full(t)
        /\ Return(s, "Full")
        /\ _sql_queue' = [_sql_queue EXCEPT ![t] = QPut(@, r[s])]
        /\ UNCHANGED << registryVars, handleVars, t_file, _workers, _max_queue_size,
                        tstate, x, connVars, callVars, ret, results, acked,
                        histVars, conn_readers >>

put_timeout(s) ==
    LET t == _thread[self[s]]
    IN  /\ pc[s] = "put"
        /\ full(t)
        /\ Return(s, "Full")
        /\ UNCHANGED << registryVars, handleVars, threadVars, connVars, callVars,
                        ret, results, acked, histVars, conn_readers >>

\* Lines 259-263: set_row_factory and set_text_factory build the request and
\* put it on the queue, with no test of the closed flag: with room in the
\* queue the request is enqueued and the call returns.
unchecked_call(s, h, k, q) ==
    LET t == _thread[h]
    IN  /\ Constructed(h)
        /\ ~ChecksClosed(k)
        /\ Begin(s, h, k, q)
        /\ ret' = [ret EXCEPT ![s] = NoRet]
        /\ ~full(t)
        /\ _sql_queue' = [_sql_queue EXCEPT ![t] = QPut(@, Request(calls + 1, k, t, q, s))]
        /\ enq' = [enq EXCEPT ![t] = Append(@, Request(calls + 1, k, t, q, s))]
        /\ Return(s, "ok")
        /\ UNCHANGED << registryVars, handleVars, t_file, _workers, _max_queue_size,
                        tstate, x, connVars, results, acked, done, written,
                        requeued, inserted, conn_readers >>

\* The same with the queue full for the 5 s of the put: Queue.Full.
unchecked_call_timeout(s, h, k, q) ==
    /\ Constructed(h)
    /\ ~ChecksClosed(k)
    /\ Begin(s, h, k, q)
    /\ ret' = [ret EXCEPT ![s] = NoRet]
    /\ full(_thread[h])
    /\ Return(s, "Full")
    /\ UNCHANGED << registryVars, handleVars, threadVars, connVars, results,
                    acked, histVars, conn_readers >>

set_row_factory(s, h) ==
    \/ unchecked_call(s, h, "SetRowFactory", "Row")
    \/ unchecked_call_timeout(s, h, "SetRowFactory", "Row")

set_text_factory(s, h) ==
    \/ unchecked_call(s, h, "SetTextFactory", "unicode")
    \/ unchecked_call_timeout(s, h, "SetTextFactory", "unicode")

\* Lines 282-286 / 298-302: success, result = r.results.get(); return or raise.
get_result(s) ==
    LET res == Head(results[r[s].id])
        st == StoreOf(r[s].thread)
    IN  /\ pc[s] = "wait"
        /\ results[r[s].id] # << >>
        /\ results' = [results EXCEPT ![r[s].id] = Tail(@)]
        /\ Return(s, IF res.success THEN "ok" ELSE res.error)
        /\ ret' = [ret EXCEPT ![s] = [rows |-> res.rows, changes |-> 0]]
        /\ acked' = [acked EXCEPT ![s] =
                       IF res.success /\ r[s].query = "insert"
                       THEN Append(@, << st, r[s].id >>) ELSE @]
        /\ UNCHANGED << registryVars, handleVars, threadVars, connVars, callVars,
                        histVars, conn_readers >>

\* Lines 314-319: the closed-flag test, then the counter is read from the
\* connection by the calling thread.
total_changes_get(s, h) ==
    /\ Constructed(h)
    /\ Begin(s, h, "total_changes", "-")
    /\ Return(s, IF _exit_set[h] THEN "ProgrammingError" ELSE "ok")
    /\ ret' = [ret EXCEPT ![s] =
                 IF _exit_set[h] THEN NoRet
                 ELSE [rows |-> << >>, changes |-> total_changes[_thread[h]]]]
    /\ conn_readers' = [conn_readers EXCEPT ![_thread[h]] =
                          IF _exit_set[h] THEN @ ELSE @ \cup {s}]
    /\ UNCHANGED << registryVars, handleVars, threadVars, connVars, results,
                    acked, histVars >>


\* ------------------------------------------------- Sqlite3WorkerThread.run
\* Lines 182-185: run() is at the get of line 184 only when the execute()
\* of the request before has returned.
AtGetOrBusy(t) == tstate[t] \in {"get", "exec"}

AtGet(t) == tstate[t] = "get"

\* Line 184: x = self._sql_queue.get()
run_get(t) ==
    /\ AtGet(t)
    /\ ~empty(t)
    /\ x' = [x EXCEPT ![t] = Head(_sql_queue[t])]
    /\ _sql_queue' = [_sql_queue EXCEPT ![t] = Tail(@)]
    /\ tstate' = [tstate EXCEPT ![t] = "exec"]
    /\ UNCHANGED << registryVars, handleVars, t_file, _workers, _max_queue_size,
                    connVars, clientVars, results, histVars >>

\* cur.execute ( self.query, self.values ) on the connection of t: does the
\* engine raise?
Raises(t, q) == q = "bad" \/ (q = "insert" /\ Locked(t))

\* Lines 92-100 of Sqlite3WorkerExecute.execute: the ( success, result ) of
\* request req on the connection of t.
ExecuteResult(t, req) ==
    IF Raises(t, req.query)
    THEN [success |-> FALSE, rows |-> << >>, error |-> "OperationalError"]
    ELSE [success |-> TRUE,
          rows |-> IF req.query = "select" THEN Rows(t) ELSE << >>,
          error |-> "-"]

\* Where run() is after x.execute() of a request of kind k (raised: the
\* engine raised in it): back at the top of the loop, in the except clause
\* of line 186, or out of run() with a traceback.  Sqlite3WorkerExecute
\* catches what the engine raises (96-100); Sqlite3WorkerExecuteScript fails
\* at line 115, before its try.
AfterExecuteUncaught(k, raised) ==
    CASE k = "Exit" -> "except"
      [] k = "ExecuteScript" -> "crashed"
      [] raised -> "crashed"
      [] OTHER -> "get"

AfterExecute(k, raised) ==
    CASE k = "Exit" -> "except"
      [] k = "ExecuteScript" -> "crashed"
      [] OTHER -> "get"

\* Line 101: self.results.put: the slot is the result queue of the request
\* itself.
SlotOfOther(req) == IF req.id > 1 THEN req.id - 1 ELSE req.id + 1

SlotOf(req) == req.id

\* Line 185 with x a Sqlite3WorkerExecute (lines 88-101).
exec_Execute(t) ==
    LET req == x[t]
        res == ExecuteResult(req.thread, req)
        st == StoreOf(t)
        wrote == res.success /\ req.query = "insert"
    IN  /\ tstate[t] = "exec"
        /\ req.kind = "Execute"
        /\ pending' = [pending EXCEPT ![t] = IF wrote THEN Append(@, req.id) ELSE @]
        /\ total_changes' = [total_changes EXCEPT ![t] = IF wrote THEN @ + 1 ELSE @]
        /\ inserted' = [inserted EXCEPT ![st] = IF wrote THEN Append(@, req.id) ELSE @]
        /\ results' = [results EXCEPT ![SlotOf(req)] = Append(@, res)]
        /\ written' = [written EXCEPT ![SlotOf(req)] = @ + 1]
        /\ done' = [done EXCEPT ![t] = Append(@, req)]
        /\ tstate' = [tstate EXCEPT ![t] = AfterExecute(req.kind, ~res.success)]
        /\ x' = [x EXCEPT ![t] = NoReq]
        /\ UNCHANGED << registryVars, handleVars, t_file, _workers, _sql_queue,
                        _max_queue_size, row_factory, text_factory, disk,
                        clientVars, enq, requeued >>

\* Line 185 with x a Sqlite3WorkerExecuteScript: line 115 reads
\* self._sqlite3_cursor off the request, outside the try: AttributeError
\* leaves execute() before anything is put on the result queue.
exec_ExecuteScript(t) ==
    /\ tstate[t] = "exec"
    /\ x[t].kind = "ExecuteScript"
    /\ tstate' = [tstate EXCEPT ![t] = AfterExecute(x[t].kind, FALSE)]
    /\ done' = [done EXCEPT ![t] = Append(@, x[t])]
    /\ x' = [x EXCEPT ![t] = NoReq]
    /\ UNCHANGED << registryVars, handleVars, t_file, _workers, _sql_queue,
                    _max_queue_size, connVars, clientVars, results, enq, written,
                    requeued, inserted >>

\* Line 185 with x a Sqlite3WorkerSetRowFactory (line 63).
exec_SetRowFactory(t) ==
    /\ tstate[t] = "exec"
    /\ x[t].kind = "SetRowFactory"
    /\ row_factory' = [row_factory EXCEPT ![x[t].thread] = x[t].query]
    /\ done' = [done EXCEPT ![t] = Append(@, x[t])]
    /\ tstate' = [tstate EXCEPT ![t] = AfterExecute(x[t].kind, FALSE)]
    /\ x' = [x EXCEPT ![t] = NoReq]
    /\ UNCHANGED << registryVars, handleVars, t_file, _workers, _sql_queue,
                    _max_queue_size, pending, total_changes, text_factory, disk,
                    clientVars, results, enq, written, requeued, inserted >>

\* Line 185 with x a Sqlite3WorkerSetTextFactory (line 74).
exec_SetTextFactory(t) ==
    /\ tstate[t] = "exec"
    /\ x[t].kind = "SetTextFactory"
    /\ text_factory' = [text_factory EXCEPT ![x[t].thread] = x[t].query]
    /\ done' = [done EXCEPT ![t] = Append(@, x[t])]
    /\ tstate' = [tstate EXCEPT ![t] = AfterExecute(x[t].kind, FALSE)]
    /\ x' = [x EXCEPT ![t] = NoReq]
    /\ UNCHANGED << registryVars, handleVars, t_file, _workers, _sql_queue,
                    _max_queue_size, pending, total_changes, row_factory, disk,
                    clientVars, results, enq, written, requeued, inserted >>

\* connection.commit(): the pending rows reach the store.
Committed(t) == [disk EXCEPT ![StoreOf(t)] = @ \o pending[t]]

\* Line 185 with x a Sqlite3WorkerCommit (line 136).
exec_Commit(t) ==
    /\ tstate[t] = "exec"
    /\ x[t].kind = "Commit"
    /\ disk' = Committed(x[t].thread)
    /\ pending' = [pending EXCEPT ![x[t].thread] = << >>]
    /\ done' = [done EXCEPT ![t] = Append(@, x[t])]
    /\ tstate' = [tstate EXCEPT ![t] = AfterExecute(x[t].kind, FALSE)]
    /\ x' = [x EXCEPT ![t] = NoReq]
    /\ UNCHANGED << registryVars, handleVars, t_file, _workers, _sql_queue,
                    _max_queue_size, total_changes, row_factory, text_factory,
                    clientVars, results, enq, written, requeued, inserted >>

\* Line 185 with x a Sqlite3WorkerExit (line 140): raise self.
exec_Exit(t) ==
    /\ tstate[t] = "exec"
    /\ x[t].kind = "Exit"
    /\ tstate' = [tstate EXCEPT ![t] = AfterExecute(x[t].kind, FALSE)]
    /\ UNCHANGED << registryVars, handleVars, t_file, _workers, _sql_queue,
                    _max_queue_size, x, connVars, clientVars, results, histVars >>

\* Line 187: leave the loop only with the queue empty.
MayExit(t) == empty(t)

\* Lines 186-187: the except clause tests the queue.
run_except(t) ==
    /\ tstate[t] = "except"
    /\ tstate' = [tstate EXCEPT ![t] = IF MayExit(t) THEN "closing" ELSE "requeue"]
    /\ UNCHANGED << registryVars, handleVars, t_file, _workers, _sql_queue,
                    _max_queue_size, x, connVars, clientVars, results, histVars >>

\* Lines 189-190: self._sql_queue.put ( e ), without timeout, then continue.
run_requeue(t) ==
    /\ tstate[t] = "requeue"
    /\ ~full(t)
    /\ _sql_queue' = [_sql_queue EXCEPT ![t] = QPut(@, x[t])]
    /\ requeued' = [requeued EXCEPT ![t] = @ + 1]
    /\ tstate' = [tstate EXCEPT ![t] = "get"]
    /\ x' = [x EXCEPT ![t] = NoReq]
    /\ UNCHANGED << registryVars, handleVars, t_file, _workers, _max_queue_size,
                    connVars, clientVars, results, enq, done, written, inserted >>

\* Lines 191-196: close the cursor, commit, close the connection, break.
run_close(t) ==
    /\ tstate[t] = "closing"
    /\ disk' = Committed(t)
    /\ pending' = [pending EXCEPT ![t] = << >>]
    /\ tstate' = [tstate EXCEPT ![t] = "dead"]
    /\ x' = [x EXCEPT ![t] = NoReq]
    /\ UNCHANGED << registryVars, handleVars, t_file, _workers, _sql_queue,
                    _max_queue_size, total_changes, row_factory, text_factory,
                    clientVars, results, histVars >>

\* ------------------------------------------------------------ specification
\* The steps of executescript: the call, and run() executing the request.
ScriptStep ==
    \/ \E s \in Submitters, h \in Handles : executescript_ex(s, h)
    \/ \E t \in Threads : exec_ExecuteScript(t)

\* Every other step of the clients and of the owner threads.
OtherStep ==
    \/ \E s \in Submitters, f \in FileNames : Sqlite3Worker_init(s, f)
    \/ \E s \in Submitters, h \in Handles : close_check(s, h)
    \/ \E s \in Submitters : close_set(s)
    \/ \E s \in Submitters : close_lock(s)
    \/ \E s \in Submitters : close_put(s)
    \/ \E s \in Submitters : close_put_timeout(s)
    \/ \E s \in Submitters : close_join(s)
    \/ \E s \in Submitters, h \in Handles, q \in Queries : execute_ex(s, h, q)
    \/ \E s \in Submitters, h \in Handles : commit(s, h)
    \/ \E s \in Submitters, h \in Handles : set_row_factory(s, h)
    \/ \E s \in Submitters, h \in Handles : set_text_factory(s, h)
    \/ \E s \in Submitters, h \in Handles : total_changes_get(s, h)
    \/ \E s \in Submitters : put(s)
    \/ \E s \in Submitters : put_timeout(s)
    \/ \E s \in Submitters : get_result(s)
    \/ \E t \in Threads : run_get(t)
    \/ \E t \in Threads : exec_Execute(t)
    \/ \E t \in Threads : exec_SetRowFactory(t)
    \/ \E t \in Threads : exec_SetTextFactory(t)
    \/ \E t \in Threads : exec_Commit(t)
    \/ \E t \in Threads : exec_Exit(t)
    \/ \E t \in Threads : run_except(t)
    \/ \E t \in Threads : run_requeue(t)
    \/ \E t \in Threads : run_close(t)

Next == OtherStep \/ ScriptStep

\* Clients calling every public operation, MaxCalls calls in all.
Spec == Init /\ [][Next]_vars

\* The same clients, none of them calling executescript.
SpecExecute == Init /\ [][OtherStep]_vars

\* Scheduling: an owner thread that can take a step of run() takes one in
\* the end, and so does a client thread inside a call; whether a client
\* begins a new call is up to the client.
ThreadStep(t) ==
    \/ run_get(t)
    \/ exec_Execute(t)
    \/ exec_SetRowFactory(t)
    \/ exec_SetTextFactory(t)
    \/ exec_Commit(t)
    \/ exec_Exit(t)
    \/ run_except(t)
    \/ run_requeue(t)
    \/ run_close(t)

ClientStep(s) ==
    \/ close_set(s)
    \/ close_lock(s)
    \/ close_put(s)
    \/ close_put_timeout(s)
    \/ close_join(s)
    \/ put(s)
    \/ put_timeout(s)
    \/ get_result(s)

Fairness ==
    /\ \A t \in Threads : WF_vars(ThreadStep(t))
    /\ \A s \in Submitters : WF_vars(ClientStep(s))

\* SpecExecute under that scheduling.
SpecExecuteFair == Init /\ [][OtherStep]_vars /\ Fairness

\* Clients that insert, select, run scripts, close and reopen handles on the
\* database file, MaxCallsReopen calls in all.
InitReopen == InitWith(MaxCallsReopen)

NextReopen ==
    \/ \E s \in Submitters : Sqlite3Worker_init(s, "/cwd/db1")
    \/ \E s \in Submitters, h \in Handles : close_check(s, h)
    \/ \E s \in Submitters : close_set(s)
    \/ \E s \in Submitters : close_lock(s)
    \/ \E s \in Submitters : close_join(s)
    \/ \E s \in Submitters, h \in Handles, q \in {"insert", "select"} : execute_ex(s, h, q)
    \/ \E s \in Submitters : put(s)
    \/ \E s \in Submitters : get_result(s)
    \/ \E t \in Threads : run_get(t)
    \/ \E t \in Threads : exec_Execute(t)
    \/ \E t \in Threads : exec_Exit(t)
    \/ \E t \in Threads : run_except(t)
    \/ \E t \in Threads : run_requeue(t)
    \/ \E t \in Threads : run_close(t)
    \/ ScriptStep

SpecReopen == InitReopen /\ [][NextReopen]_vars

\* ------------------------------------------------------------------ claims
Range(q) == {q[i] : i \in 1..Len(q)}

IsPrefix(a, b) == Len(a) <= Len(b) /\ \A i \in 1..Len(a) : a[i] = b[i]

NotExit(q) == q.kind # "Exit"

\* The requests whose execute() is in progress on owner thread t: taken off
\* the queue and not ended (an Exit is in progress while run() is in it).
Executing(t) ==
    {q \in Range(enq[t]) : NotExit(q) /\ q \notin Range(_sql_queue[t]) /\ q \notin Range(done[t])}
    \cup (IF tstate[t] = "exec" /\ x[t].kind = "Exit" THEN {x[t]} ELSE {})

\* A client is blocked in r.results.get() on a slot nothing will be put on:
\* the owner thread of its request has ended.
Stuck(s) ==
    /\ pc[s] = "wait"
    /\ results[r[s].id] = << >>
    /\ ~is_alive(r[s].thread)

\* C1: every request that was enqueued gets exactly one result: no client
\* stays blocked on the result slot of its request, and no slot is written
\* twice.
C1_EveryRequestAnswered ==
    /\ \A s \in Submitters : ~Stuck(s)
    /\ \A n \in CallIds : written[n] <= 1

\* C2: for each owner thread, at most one request has its execute() in
\* progress, whatever the number of client threads and handles.
C2_OneAtATime == \A t \in Threads : Cardinality(Executing(t)) <= 1

\* C2 witness: one request is executing while another one is waiting in the
\* queue of the same owner thread.
C2_Witness ==
    \E t \in Threads : Cardinality(Executing(t)) = 1 /\ ~empty(t) /\ NotExit(x[t])

\* C3: the requests other than Exit are executed in the order they were
\* enqueued, and so the requests of one client in the order it issued them.
C3_FifoOrder ==
    \A t \in Threads :
        /\ IsPrefix(done[t], SelectSeq(enq[t], NotExit))
        /\ \A i, j \in 1..Len(done[t]) :
              (i < j /\ done[t][i].by = done[t][j].by) => done[t][i].id < done[t][j].id

\* C3 witness: an Exit was put back on the queue, and a commit and a later
\* execute of one client were both executed, the commit first.
C3_Witness ==
    \E t \in Threads :
        /\ requeued[t] > 0
        /\ \E i, j \in 1..Len(done[t]) :
              /\ i < j
              /\ done[t][i].kind = "Commit"
              /\ done[t][j].kind = "Execute"
              /\ done[t][i].by = done[t][j].by

IndexOf(q, e) == CHOOSE i \in 1..Len(q) : q[i] = e

\* The rows client s had inserted into store st by an execute that returned.
AckedIn(s, st) == {a[2] : a \in {b \in Range(acked[s]) : b[1] = st}}

C5_EngineErrorIsolated ==
    [][\A t \in Threads :
          (/\ tstate[t] = "exec"
           /\ x[t].kind = "Execute"
           /\ Raises(t, x[t].query)
           /\ tstate'[t] # "exec")
          => /\ tstate'[t] = "get"
             /\ pending' = pending
             /\ disk' = disk
             /\ Rows(t)' = Rows(t)
             /\ results'[x[t].id] =
                   << [success |-> FALSE, rows |-> << >>, error |-> "OperationalError"] >>
             /\ x[t] \notin Range(_sql_queue'[t])]_vars

\* C5 witness: a malformed execute was executed, later a select on the same
\* owner thread, and its client got the rows that were there before.
C5_Witness ==
    \E s \in Submitters, t \in Threads :
        /\ pc[s] = "idle"
        /\ r[s].query = "select"
        /\ outcome[s] = "ok"
        /\ ret[s].rows # << >>
        /\ \E i, j \in 1..Len(done[t]) :
              i < j /\ done[t][i].query = "bad" /\ done[t][j] = r[s]

\* The request was executed and, if its client waits for a result, got one.
Answered(t, q) ==
    /\ q \in Range(done[t])
    /\ q.kind \in Blocking => written[q.id] = 1

\* C6: when the owner thread has ended after the last handle's close put
\* Exit on its queue, every request enqueued ahead of that Exit has been
\* executed and has its result.
C6_DrainsBeforeExit ==
    \A t \in Threads :
        \A i \in 1..Len(enq[t]) :
            (enq[t][i].kind = "Exit" /\ ~is_alive(t))
            => \A j \in 1..(i - 1) : Answered(t, enq[t][j])

\* The handle is in the handle set of its owner thread.
Registered(h) == Constructed(h) /\ h \in _workers[_thread[h]]

\* C7: at most one live owner thread per database file path, and the
\* handles registered on one file path are bound to one owner thread: the
\* one the registry holds while it is alive.
C7_OneLiveOwnerPerPath ==
    /\ \A t, u \in Threads :
          (is_alive(t) /\ is_alive(u) /\ t_file[t] = t_file[u] /\ t_file[t] # MEMORY)
          => t = u
    /\ \A h, g \in Handles :
          (Registered(h) /\ Registered(g) /\ _file_name[h] = _file_name[g]
           /\ _file_name[h] # MEMORY)
          => _thread[h] = _thread[g]
    /\ \A h \in Handles :
          (Registered(h) /\ _file_name[h] # MEMORY /\ is_alive(_thread[h]))
          => _threads[_file_name[h]] = _thread[h]

\* C7 witness: a second handle was constructed on the file path while the
\* first was open, and both are bound to the one live owner thread.
C7_Witness ==
    \E h, g \in Handles :
        /\ h # g
        /\ Registered(h) /\ Registered(g)
        /\ _file_name[h] = _file_name[g] /\ _file_name[h] # MEMORY
        /\ _thread[h] = _thread[g] /\ is_alive(_thread[h])

\* C8: ':memory:' never gets a registry entry, and two handles open on
\* ':memory:' at the same time have two owner threads.
C8_MemoryNotRegistered ==
    /\ _threads[MEMORY] = None
    /\ \A h, g \in Handles :
          (h # g /\ Registered(h) /\ Registered(g)
           /\ _file_name[h] = MEMORY /\ _file_name[g] = MEMORY)
          => _thread[h] # _thread[g]

\* C9: a close() called on a closed handle raises ProgrammingError in that
\* step and leaves the handle sets, the queues, the registry and the closed
\* flags as they were.
C9_DoubleCloseFails ==
    [][\A s \in Submitters :
          (/\ pc[s] = "idle"
           /\ calls' = calls + 1
           /\ r'[s].id = calls + 1
           /\ r'[s].kind = "Exit"
           /\ closed_at_call'[s])
          => /\ pc'[s] = "idle"
             /\ outcome'[s] = "ProgrammingError"
             /\ UNCHANGED << _workers, _sql_queue, _threads, _exit_set >>]_vars

\* C9 witness: a close() on a closed handle has raised ProgrammingError.
C9_Witness ==
    \E s \in Submitters :
        /\ pc[s] = "idle"
        /\ r[s].kind = "Exit"
        /\ closed_at_call[s]
        /\ outcome[s] = "ProgrammingError"

\* C10: every other public operation called on a closed handle raises
\* ProgrammingError and its request never gets onto the queue.
C10_ClosedHandleFailsFast ==
    \A s \in Submitters :
        (/\ closed_at_call[s]
         /\ r[s].kind \in {"Execute", "ExecuteScript", "SetRowFactory",
                           "SetTextFactory", "Commit", "total_changes"})
        => /\ pc[s] = "idle"
           /\ outcome[s] = "ProgrammingError"
           /\ r[s] \notin Range(enq[r[s].thread])

\* C11: the step in which a put times out on the full queue raises
\* Queue.Full in the calling client; the request is not in the queue, was
\* never enqueued or executed and has no result, the data are as they were,
\* and the queue holds the same requests as before, in the same order.
C11_QueueFullRejected ==
    [][\A s \in Submitters :
          (/\ outcome'[s] = "Full"
           /\ pc'[s] = "idle"
           /\ (pc[s] # "idle" \/ r'[s].id = calls + 1))
          => /\ \A t \in Threads :
                   /\ r'[s] \notin Range(_sql_queue'[t])
                   /\ r'[s] \notin Range(enq'[t])
                   /\ r'[s] \notin Range(done'[t])
                   /\ x'[t] # r'[s]
                   /\ full(_thread[self'[s]])
             /\ written'[r'[s].id] = 0
             /\ UNCHANGED << _sql_queue, x, connVars, results, enq, done >>]_vars

\* C11 witness: an execute has raised Queue.Full, and the two requests that
\* filled the queue have both been executed since.
C11_Witness ==
    \E s \in Submitters :
        /\ pc[s] = "idle"
        /\ outcome[s] = "Full"
        /\ r[s].kind = "Execute"
        /\ Len(done[r[s].thread]) = MaxQueue
        /\ r[s] \notin Range(done[r[s].thread])

\* Client s is in close() on the last handle of owner thread t, between the
\* put of Exit and the removal of the registry entry.
ClosingLast(s, t) ==
    /\ pc[s] \in {"close_put", "close_join"}
    /\ _thread[self[s]] = t

\* C12: the step in which close() of the last handle returns normally
\* leaves the owner thread terminated with its connection closed and the
\* registry without an entry for the path; from the deregistration to the
\* removal of the entry the closing client holds the registry lock, and an
\* owner thread with an Exit on its queue is in the registry only while the
\* lock is held.
C12_LastCloseUnderLock ==
    [][/\ \A s \in Submitters :
            (pc[s] = "close_join" /\ pc'[s] = "idle" /\ outcome'[s] = "ok")
            => /\ tstate'[_thread[self[s]]] = "dead"
               /\ _threads'[_file_name[self[s]]] = None
               /\ _workers'[_thread[self[s]]] = {}
               /\ _threads_lock = s
       /\ \A s \in Submitters, t \in Threads :
            ClosingLast(s, t)' => (_threads_lock' = s /\ _workers'[t] = {})
       /\ \A t \in Threads :
            ((\E i \in 1..Len(enq'[t]) : enq'[t][i].kind = "Exit")
             /\ _threads'[t_file'[t]] = t)
            => _threads_lock' # None]_vars

\* C12 witness: close() of the last handle of the database file has
\* returned after the owner thread executed a request, put Exit back,
\* drained the queue and closed the connection.
C12_Witness ==
    \E s \in Submitters :
        /\ pc[s] = "idle"
        /\ r[s].kind = "Exit"
        /\ outcome[s] = "ok"
        /\ tstate[_thread[self[s]]] = "dead"
        /\ requeued[_thread[self[s]]] > 0
        /\ _threads[_file_name[self[s]]] = None
        /\ _threads_lock = None

\* C13: a close() that finds another handle registered on the owner thread
\* sets the closed flag of its handle and takes the handle out of the handle
\* set, and that is all: it returns at once, no Exit is enqueued, the queue,
\* the position of run(), the registry and the other handles' closed flags
\* are as they were, and the registry lock is free again.
C13_CloseWithOthersRegistered ==
    [][\A s \in Submitters :
          LET h == self[s]
              t == _thread[h]
          IN  /\ (pc[s] = "close_set" /\ pc'[s] # "close_set")
                 => /\ _exit_set' = [_exit_set EXCEPT ![h] = TRUE]
                    /\ UNCHANGED << _workers, _sql_queue, tstate, _threads,
                                    _threads_lock, enq >>
              /\ (pc[s] = "close_lock" /\ pc'[s] # "close_lock"
                  /\ h \in _workers[t] /\ _workers[t] # {h})
                 => /\ pc'[s] = "idle"
                    /\ outcome'[s] = "ok"
                    /\ _exit_set[h]
                    /\ _workers' = [_workers EXCEPT ![t] = @ \ {h}]
                    /\ _threads_lock' = None
                    /\ UNCHANGED << _exit_set, _sql_queue, tstate, _threads, enq,
                                    x, connVars >>]_vars

\* C13 witness: a handle was closed while another one was registered on
\* its owner thread, and an execute called afterwards through the other
\* handle has returned.
C13_Witness ==
    \E s, c \in Submitters :
        /\ pc[s] = "idle" /\ r[s].kind = "Exit" /\ outcome[s] = "ok"
        /\ pc[c] = "idle" /\ r[c].kind = "Execute" /\ outcome[c] = "ok"
        /\ r[c].id > r[s].id
        /\ self[c] # self[s]
        /\ _thread[self[c]] = _thread[self[s]]
        /\ is_alive(_thread[self[s]])
        /\ _threads[_file_name[self[s]]] = _thread[self[s]]

\* C14: the connection and the cursor of an owner thread are read and
\* written by that thread only: no client thread has read the connection
\* itself in a public operation.
C14_OnlyOwnerTouchesConnection == \A t \in Threads : conn_readers[t] = {}

\* C15: the step in which run() executes an ExecuteScript request puts
\* exactly one ( success, result ) on the slot of the request, and run() is
\* back at the top of its loop, ready for the next request.
C15_ScriptAnswered ==
    [][\A t \in Threads :
          (/\ tstate[t] = "exec"
           /\ x[t].kind = "ExecuteScript"
           /\ tstate'[t] # "exec")
          => /\ Len(results'[x[t].id]) = 1
             /\ written'[x[t].id] = 1
             /\ tstate'[t] = "get"]_vars

\* The rows whose INSERT into store st had returned to its client before
\* the current call of client s began: the client's own, and those of a
\* client that began a later call before s did.
AckedBefore(s, st) ==
    UNION {IF c = s \/ (r[c].id < r[s].id)
           THEN {n \in AckedIn(c, st) : n < r[c].id} ELSE {} : c \in Submitters}

\* C16: an owner thread that has shut down has no uncommitted rows left, and
\* an execute(SELECT) through any handle of the database file returns every
\* row whose INSERT had returned before through any handle of the file, also
\* when the handles were closed in between and a new owner thread serves the
\* file.
C16_NoWriteLost ==
    /\ \A t \in Threads : tstate[t] = "dead" => pending[t] = << >>
    /\ \A s \in Submitters :
          (/\ pc[s] = "idle"
           /\ r[s].kind = "Execute"
           /\ r[s].query = "select"
           /\ outcome[s] = "ok"
           /\ _file_name[self[s]] # MEMORY)
          => AckedBefore(s, StoreOf(r[s].thread)) \subseteq Range(ret[s].rows)

\* run() of owner thread t has left its loop, or is leaving it.
LeftRunning(t) == tstate[t] \in {"closing", "dead", "crashed"}

\* Every request that was enqueued behind an Exit and taken off the queue
\* has been executed and, if its client waits for a result, has one.
BehindExitAnswered(t) ==
    \A i, j \in 1..Len(enq[t]) :
        (/\ i < j
         /\ enq[t][i].kind = "Exit"
         /\ NotExit(enq[t][j])
         /\ enq[t][j] \notin Range(_sql_queue[t]))
        => Answered(t, enq[t][j])

\* C17: the except clause of run() that finds requests in the queue puts
\* the Exit back at the tail and run() goes on with its loop; run() leaves
\* the loop only from an except clause that found the queue empty; and once
\* run() has left the loop, the requests that were enqueued behind the Exit
\* and taken off the queue have all been executed and answered.
C17_ShutdownDeferred ==
    [][\A t \in Threads :
          /\ (tstate[t] = "except" /\ tstate'[t] # "except")
             => tstate'[t] = (IF empty(t) THEN "closing" ELSE "requeue")
          /\ (tstate[t] = "requeue" /\ tstate'[t] # "requeue")
             => /\ tstate'[t] = "get"
                /\ x[t].kind = "Exit"
                /\ _sql_queue'[t] = Append(_sql_queue[t], x[t])
          /\ (tstate'[t] = "closing" /\ tstate[t] # "closing")
             => (tstate[t] = "except" /\ empty(t))
          /\ LeftRunning(t)' => BehindExitAnswered(t)']_vars

\* C18: once run() of an owner thread has seen the queue empty in the
\* except clause (it is closing the connection) or has ended after it, no
\* step puts a request on the queue of that thread.
C18_NoPutOnceDraining ==
    [][\A t \in Threads :
          tstate[t] \in {"closing", "dead"} => _sql_queue'[t] = _sql_queue[t]]_vars

\* C19: an owner thread that is no longer running left run() through the
\* shutdown path: an Exit was put on its queue, it closed its connection,
\* and no handle is registered on it.
C19_EndsOnlyByShutdown ==
    \A t \in Threads :
        (Started(t) /\ ~is_alive(t))
        => /\ tstate[t] = "dead"
           /\ _workers[t] = {}
           /\ \E i \in 1..Len(enq[t]) : enq[t][i].kind = "Exit"

\* C20: once close() of the last handle has put Exit on the queue and waits
\* in join(), the owner thread ends by closing its connection and close()
\* returns, under fair scheduling and with the clients making finitely many
\* calls.
C20_ShutdownTerminates ==
    \A s \in Submitters :
        (pc[s] = "close_join")
        ~> (/\ pc[s] = "idle"
            /\ self[s] # None
            /\ tstate[_thread[self[s]]] = "dead")

\* C21: a result slot is written at most once, in the step in which the
\* owner thread executes the request of that slot, a request it took off
\* its own queue; it is read only by the client that made the request, which
\* is waiting for it; and what the client gets is the outcome of its own
\* request: the error for a malformed query, rows for a select only.
C21_ResultRouting ==
    [][/\ \A n \in CallIds :
            /\ written'[n] <= 1
            /\ Len(results'[n]) > Len(results[n])
               => \E t \in Threads :
                     /\ tstate[t] = "exec"
                     /\ tstate'[t] # "exec"
                     /\ x[t].id = n
                     /\ x[t].thread = t
                     /\ x[t] \in Range(enq[t])
                     /\ results'[n] = << ExecuteResult(t, x[t]) >>
            /\ Len(results'[n]) < Len(results[n])
               => \E s \in Submitters :
                     /\ pc[s] = "wait"
                     /\ pc'[s] = "idle"
                     /\ r[s].id = n
                     /\ r[s].by = s
                     /\ ret'[s].rows = Head(results[n]).rows
                     /\ outcome'[s] = (IF Head(results[n]).success
                                       THEN "ok" ELSE Head(results[n]).error)
       /\ \A s \in Submitters :
            (pc[s] = "wait" /\ pc'[s] = "idle")
            => /\ r[s] \in Range(done[r[s].thread])
               /\ r[s].query = "bad" => outcome'[s] = "OperationalError"
               /\ r[s].query = "select" => outcome'[s] = "ok"
               /\ ret'[s].rows # << >> => r[s].query = "select"]_vars

\* C21 witness: the calls of two clients overlapped (the one begun later was
\* enqueued and executed first), and each got the outcome of its own
\* request: the malformed query its error, the select its rows.
C21_Witness ==
    \E s, c \in Submitters, t \in Threads :
        /\ pc[s] = "idle" /\ r[s].query = "bad" /\ outcome[s] = "OperationalError"
        /\ pc[c] = "idle" /\ r[c].query = "select" /\ outcome[c] = "ok"
        /\ r[s].id < r[c].id
        /\ \E i, j \in 1..Len(done[t]) :
              i < j /\ done[t][i] = r[c] /\ done[t][j] = r[s]

\* An Exit is on the queue of owner thread t, or run() of t is handling
\* one, or a close() is inside the put of one.
ExitPending(t) ==
    \/ \E i \in 1..Len(_sql_queue[t]) : _sql_queue[t][i].kind = "Exit"
    \/ x[t].kind = "Exit"
    \/ \E s \in Submitters : pc[s] = "close_put" /\ _thread[self[s]] = t

\* C22: a live owner thread with no handle registered on it has an Exit
\* pending, also after a close() of its last handle whose put of Exit
\* failed on the full queue.
C22_NoOrphanedOwner ==
    \A t \in Threads : (is_alive(t) /\ _workers[t] = {}) => ExitPending(t)

\* Client s is in close() on handle h, past the closed-flag test.
PastCloseCheck(s, h) ==
    /\ pc[s] \in {"close_set", "close_lock", "close_put", "close_join"}
    /\ self[s] = h

\* The last call of client s was a close() on handle h, and it is over.
ClosedBy(s, h) == pc[s] = "idle" /\ r[s].kind = "Exit" /\ self[s] = h

\* C23: of two clients that call close() on one handle, one only gets past
\* the closed-flag test and deregisters the handle; the other one raises
\* ProgrammingError, and no close() raises KeyError.
C23_ConcurrentCloseAtomic ==
    /\ \A s, c \in Submitters, h \in Handles :
          s # c => ~(PastCloseCheck(s, h) /\ PastCloseCheck(c, h))
    /\ \A s, c \in Submitters, h \in Handles :
          (s # c /\ ClosedBy(s, h) /\ ClosedBy(c, h))
          => (outcome[s] = "ProgrammingError" \/ outcome[c] = "ProgrammingError")
    /\ \A s \in Submitters : r[s].kind = "Exit" => outcome[s] # "KeyError"

====
